---- MODULE Spec2Model ----
(***************************************************************************)
(* A model of gridtext's ParBox (src/par-box.h): the greedy first-fit      *)
(* layout ParBox::calc_layout and the Knuth-Plass style break search       *)
(* ParBox::compute_breaks with its helpers.                                *)
(*                                                                         *)
(* Lengths (C++ double) are modelled by integers; the adjustment ratio r   *)
(* is an exact fraction n/d or the "infinite" sentinel; demerits are       *)
(* computed exactly and then narrowed to a 32 bit int as the Breakpoint    *)
(* constructor does.                                                       *)
(***************************************************************************)
EXTENDS Integers, Sequences, FiniteSets, TLC

VARIABLES
    \* ---- the ParBox object
    m_nodes,            \* the node list, position k is m_nodes[k+1]
    m_vspacing, m_hspacing,
    m_width, m_ascent, m_descent, m_multiline_shift,
    \* ---- compute_breaks: arguments, locals, control
    line_lengths, tolerance,
    pc,                 \* position of the compute_breaks run
    i,                  \* outer loop index
    active_nodes,       \* list<Breakpoint>
    i_active,           \* inner iterator (1-based index into active_nodes)
    breaks,             \* the new breakpoints of the current position
    i_min,              \* index of the minimum-demerits node of the last search
    final_breaks,       \* the vector built in the last iteration
    ret,                \* what the caller receives
    read_empty,         \* the minimum search dereferenced begin() of an empty list
    int_overflow,       \* what this build's double -> int yields out of range
    created,            \* history: every breakpoint constructed, in construction order
    \* ---- calc_layout: argument, locals, control
    width_hint,
    lpc, i_node, x_off, y_off, lines, ascent, descent,
    placed              \* placed[k]: <<x, y>> given to child k by place(), <<>> before

breakVars  == <<line_lengths, tolerance, pc, i, active_nodes, i_active, breaks,
                i_min, final_breaks, ret, read_empty, int_overflow, created>>
layoutVars == <<width_hint, lpc, i_node, x_off, y_off, lines, ascent, descent,
                placed, m_width, m_ascent, m_descent, m_multiline_shift>>
boxVars    == <<m_nodes, m_vspacing, m_hspacing>>
vars       == <<boxVars, breakVars, layoutVars>>

-----------------------------------------------------------------------------
(* Bounds and program constants *)

MaxNodes == 4
MaxBoxes == 3

\* Penalty<Renderer>::infinity (penalty.h)
PenaltyInfinity == 10000

\* int demerits: the largest value a 32 bit int holds
IntMax == 2147483647
IntMin == -IntMax - 1

\* default arguments of compute_breaks
fitness_demerit == 100
flagged_demerit == 100

-----------------------------------------------------------------------------
(* Nodes *)

BoxNode(w, a, d) ==
    [type |-> "box", width |-> w, stretch |-> 0, shrink |-> 0,
     penalty |-> 0, flagged |-> FALSE, ascent |-> a, descent |-> d]
GlueNode(w, y, z) ==
    [type |-> "glue", width |-> w, stretch |-> y, shrink |-> z,
     penalty |-> 0, flagged |-> FALSE, ascent |-> 0, descent |-> 0]
PenaltyNode(p, w, f) ==
    [type |-> "penalty", width |-> w, stretch |-> 0, shrink |-> 0,
     penalty |-> p, flagged |-> f, ascent |-> 0, descent |-> 0]

\* the node kinds a paragraph stream is built from in the break search
BreakNodeKinds ==
    { BoxNode(2, 1, 1),
      GlueNode(1, 1, 1),
      PenaltyNode(0, 0, FALSE),
      PenaltyNode(-1, 0, FALSE),
      PenaltyNode(50, 2, TRUE),
      PenaltyNode(-PenaltyInfinity, 0, FALSE) }

LineLengthChoices == { <<1, 3>>, <<20>> }
ToleranceChoices  == { 0, 1 }

SeqsUpTo(S, n) == UNION { [1..k -> S] : k \in 0..n }

Node(k) == m_nodes[k + 1]
m       == Len(m_nodes)

-----------------------------------------------------------------------------
(* Sequence helpers *)

RECURSIVE Reverse(_)
Reverse(s) == IF s = <<>> THEN <<>> ELSE Reverse(Tail(s)) \o <<Head(s)>>

RemoveAt(s, k) == SubSeq(s, 1, k - 1) \o SubSeq(s, k + 1, Len(s))
InsertAt(s, k, e) == SubSeq(s, 1, k - 1) \o <<e>> \o SubSeq(s, k, Len(s))
Range(s) == { s[k] : k \in 1..Len(s) }

-----------------------------------------------------------------------------
(* compute_breaks: the per-node values and the prefix sums *)

w(k) == Node(k).width
y(k) == IF Node(k).type = "glue" THEN Node(k).stretch ELSE 0
z(k) == IF Node(k).type = "glue" THEN Node(k).shrink ELSE 0
p(k) == IF Node(k).type = "penalty" THEN Node(k).penalty ELSE 0
f(k) == IF Node(k).type = "penalty" THEN Node(k).flagged ELSE FALSE

RECURSIVE m_sum_widths(_)
m_sum_widths(k) == IF k = 0 THEN 0 ELSE m_sum_widths(k - 1) + w(k - 1)
RECURSIVE m_sum_stretch(_)
m_sum_stretch(k) == IF k = 0 THEN 0 ELSE m_sum_stretch(k - 1) + y(k - 1)
RECURSIVE m_sum_shrink(_)
m_sum_shrink(k) == IF k = 0 THEN 0 ELSE m_sum_shrink(k - 1) + z(k - 1)

measure_width(i1, i2)   == m_sum_widths(i2) - m_sum_widths(i1)
measure_stretch(i1, i2) == m_sum_stretch(i2) - m_sum_stretch(i1)
measure_shrink(i1, i2)  == m_sum_shrink(i2) - m_sum_shrink(i1)

is_feasible_breakpoint(k) ==
    IF Node(k).type = "penalty"
    THEN Node(k).penalty < PenaltyInfinity
    ELSE k > 0 /\ Node(k).type = "glue" /\ Node(k - 1).type = "box"

is_forced_break(k) ==
    Node(k).type = "penalty" /\ Node(k).penalty <= -1 * PenaltyInfinity

-----------------------------------------------------------------------------
(* The adjustment ratio: the fraction n/d, or Glue<Renderer>::infinity *)

Ratio(n, d) == [inf |-> FALSE, n |-> n, d |-> d]
GlueInfinity == [inf |-> TRUE, n |-> 1, d |-> 1]

compute_adjustment_ratio(i1, i2, line, ll) ==
    LET len0      == measure_width(i1, i2)
        len       == IF Node(i2).type = "penalty" THEN len0 + Node(i2).width ELSE len0
        len_avail == IF line < Len(ll) THEN ll[line + 1] ELSE ll[Len(ll)]
    IN  IF len < len_avail
        THEN LET stretch == measure_stretch(i1, i2)
             IN  IF stretch > 0 THEN Ratio(len_avail - len, stretch) ELSE GlueInfinity
        ELSE IF len > len_avail
        THEN LET shrink == measure_shrink(i1, i2)
             IN  IF shrink > 0 THEN Ratio(len_avail - len, shrink) ELSE GlueInfinity
        ELSE Ratio(0, 1)

\* comparisons of r with the literals the code uses
RLessMinusOne(r)  == ~r.inf /\ r.n < -r.d            \* r < -1
RLessMinusHalf(r) == ~r.inf /\ 2 * r.n < -r.d        \* r < -.5
RLeqHalf(r)       == ~r.inf /\ 2 * r.n <= r.d        \* r <= .5
RLeqOne(r)        == ~r.inf /\ r.n <= r.d            \* r <= 1
RGeqMinusOne(r)   == r.inf \/ r.n >= -r.d            \* -1 <= r

\* the chained comparison  -1 <= r <= tolerance  of C++: (-1 <= r) yields
\* 0 or 1, and that is what is compared with tolerance
ToleranceTest(r, tol) == (IF RGeqMinusOne(r) THEN 1 ELSE 0) <= tol

FitnessClass(r) ==
    IF RLessMinusHalf(r) THEN 0
    ELSE IF RLeqHalf(r) THEN 1
    ELSE IF RLeqOne(r) THEN 2
    ELSE 3

-----------------------------------------------------------------------------
(* Demerits, computed exactly.  A double is [big, fl, frac]: big when its   *)
(* magnitude is beyond the int range, otherwise floor fl and whether a      *)
(* fractional part is left.  All intermediate values stay below 2^31.       *)

Abs(n) == IF n < 0 THEN -n ELSE n
Pow3(n) == n * n * n

Big == [big |-> TRUE, fl |-> 0, frac |-> FALSE]
Dbl(fl, frac) == [big |-> FALSE, fl |-> fl, frac |-> frac]

\* (bn/bd)^2 for bn/bd < 46341, as <<floor, numerator of the rest over bd^2>>
SquareParts(bn, bd) ==
    LET q  == bn \div bd
        r0 == bn % bd
        t  == 2 * q * r0
        fr == (t % bd) * bd + r0 * r0
    IN  <<q * q + (t \div bd) + (fr \div (bd * bd)), fr % (bd * bd)>>

\* pow(bn/bd, 2): at least 2^31 from 46340.9500118... on
PowSquare(bn, bd) ==
    LET q  == bn \div bd
        r0 == bn % bd
    IN  IF q >= 46341 \/ (q = 46340 /\ r0 * 1000000 >= 950012 * bd)
        THEN Big
        ELSE LET sp == SquareParts(bn, bd) IN Dbl(sp[1], sp[2] # 0)

\* pow(bn/bd, 3): at least 2^31 from 1290.1591550... on
PowCube(bn, bd) ==
    LET q  == bn \div bd
        r0 == bn % bd
    IN  IF q >= 1291 \/ (q = 1290 /\ r0 * 1000000 >= 159156 * bd)
        THEN Big
        ELSE LET sp == SquareParts(bn, bd)
                 q2 == sp[1]
                 r2 == sp[2]
                 ta == q2 * r0
                 tb == r2 * q
                 fr == (ta % bd) * bd * bd + (tb % (bd * bd)) * bd + r2 * r0
             IN  Dbl(q2 * q + (ta \div bd) + (tb \div (bd * bd)) + (fr \div Pow3(bd)),
                     fr % Pow3(bd) # 0)

DblAddInt(x, n) ==
    IF x.big \/ (n > 0 /\ x.fl > IntMax - n) THEN Big ELSE Dbl(x.fl + n, x.frac)

\* the double the code calls demerits for the line from active node a to k
LineDemerits(r, k, a) ==
    LET bd   == Pow3(r.d)
        an   == 100 * Pow3(Abs(r.n))            \* 100 * |r|^3 is an / bd
        base == IF r.inf THEN Big
                ELSE IF p(k) >= 0 THEN PowCube(bd * (1 + p(k)) + an, bd)
                ELSE IF is_forced_break(k)
                     THEN DblAddInt(PowSquare(bd + an, bd), -(p(k) * p(k)))
                ELSE PowSquare(bd + an, bd)
        flg  == IF f(k) /\ f(a.position) THEN flagged_demerit ELSE 0
        fit  == IF Abs(FitnessClass(r) - a.fitness_class) > 1 THEN fitness_demerit ELSE 0
    IN  DblAddInt(DblAddInt(base, flg), fit)

\* double -> int: truncation toward zero; a value the int cannot hold is
\* undefined behaviour, which a build resolves to one of the extremes
\* (the "integer indefinite" value, or saturation)
OverflowOutcomes == {IntMin, IntMax}

ToInt(x) ==
    IF x.big THEN int_overflow
    ELSE IF x.fl < 0 /\ x.frac THEN x.fl + 1 ELSE x.fl

-----------------------------------------------------------------------------
(* Breakpoints.  previous is <<>> for nullptr, <<b>> for a pointer to b. *)

Breakpoint(_position, _line, _fitness_class, _width, _stretch, _shrink, _demerits, _previous) ==
    [position |-> _position, line |-> _line, fitness_class |-> _fitness_class,
     totalwidth |-> _width, totalstretch |-> _stretch, totalshrink |-> _shrink,
     demerits |-> _demerits, previous |-> _previous]

\* active_nodes.emplace_back(0, 0, 1, 0, 0, 0, 0)
Sentinel == Breakpoint(0, 0, 1, 0, 0, 0, 0, <<>>)

\* breaks.emplace_back(i, i_active->line + 1, fitness_class, sums..., demerits)
NewBreak(k, a, r, dm) ==
    Breakpoint(k, a.line + 1, FitnessClass(r),
               m_sum_widths(k), m_sum_stretch(k), m_sum_shrink(k), dm, <<>>)

\* first index whose line is not below the new node's line
RECURSIVE InsertionPoint(_, _, _)
InsertionPoint(list, node, k) ==
    IF k <= Len(list) /\ list[k].line < node.line
    THEN InsertionPoint(list, node, k + 1)
    ELSE k

\* is there, from index k on and while the line equals the new node's line,
\* a node with the same fitness class and position
RECURSIVE HasSameNode(_, _, _)
HasSameNode(list, node, k) ==
    IF k <= Len(list) /\ list[k].line = node.line
    THEN IF list[k].fitness_class = node.fitness_class /\ list[k].position = node.position
         THEN TRUE
         ELSE HasSameNode(list, node, k + 1)
    ELSE FALSE

\* add_active_node without the search for a node of the same triple
add_active_node_no_search(list, node) ==
    InsertAt(list, InsertionPoint(list, node, 1), node)

add_active_node(list, node) ==
    LET ins == InsertionPoint(list, node, 1)
    IN  IF HasSameNode(list, node, ins) THEN list ELSE InsertAt(list, ins, node)

\* for (i_brk = breaks.begin(); ...) add_active_node(active_nodes, *i_brk)
RECURSIVE MergeBreaks(_, _)
MergeBreaks(list, brks) ==
    IF brks = <<>> THEN list
    ELSE MergeBreaks(add_active_node(list, Head(brks)), Tail(brks))

\* the minimum search: the first node is the minimum until a later one is
\* strictly smaller
RECURSIVE MinSearch(_, _, _)
MinSearch(list, k, best) ==
    IF k > Len(list) THEN best
    ELSE IF list[k].demerits < list[best].demerits
         THEN MinSearch(list, k + 1, k)
         ELSE MinSearch(list, k + 1, best)

\* the minimum search with <= in place of <: the last minimum wins
RECURSIVE MinSearchLeq(_, _, _)
MinSearchLeq(list, k, best) ==
    IF k > Len(list) THEN best
    ELSE IF list[k].demerits <= list[best].demerits
         THEN MinSearchLeq(list, k + 1, k)
         ELSE MinSearchLeq(list, k + 1, best)

FindMinIndexLeq(list) == MinSearchLeq(list, 2, 1)

FindMinIndex(list) == MinSearch(list, 2, 1)

\* while (p_node != nullptr) { push_back(position); p_node = previous; }
RECURSIVE ChainPositions(_)
ChainPositions(ptr) ==
    IF ptr = <<>> THEN <<>>
    ELSE <<ptr[1].position>> \o ChainPositions(ptr[1].previous)

BuildFinalBreaks(node) == Reverse(ChainPositions(<<node>>))

\* what a read through an invalid iterator or a missing return may hand
\* over: any value at all; the first and the last position stand for them
GarbagePositions == { 0, m - 1 }
GarbageBreaks == { <<>> } \cup { <<k>> : k \in GarbagePositions }

-----------------------------------------------------------------------------
(* compute_breaks as a process.  pc: "start", "scan" (head of the outer    *)
(* loop), "active" (the loop over the active nodes), "min" (the minimum    *)
(* search and the path reconstruction), "done", "crashed".                 *)

\* one entry of the history: the breakpoint constructed at position at for
\* the line from active node from[1] with ratio r (the sentinel has no from)
Made(bp, from, r, at) == [bp |-> bp, from |-> from, r |-> r, at |-> at]

LayoutIdle ==
    /\ width_hint = 0 /\ lpc = "idle" /\ i_node = 0
    /\ x_off = 0 /\ y_off = 0 /\ lines = 0 /\ ascent = 0 /\ descent = 0
    /\ placed = <<>>
    /\ m_width = 0 /\ m_ascent = 0 /\ m_descent = 0 /\ m_multiline_shift = 0

BreaksIdle ==
    /\ line_lengths = <<1>> /\ tolerance = 1
    /\ pc = "idle" /\ i = 0 /\ active_nodes = <<>> /\ i_active = 0
    /\ breaks = <<>> /\ i_min = 0 /\ final_breaks = <<>> /\ ret = <<>>
    /\ read_empty = FALSE /\ created = <<>> /\ int_overflow = IntMax

Init ==
    /\ m_nodes \in SeqsUpTo(BreakNodeKinds, MaxNodes)
    /\ m_vspacing = 0 /\ m_hspacing = 0
    /\ line_lengths \in LineLengthChoices
    /\ tolerance \in ToleranceChoices
    /\ pc = "start" /\ i = 0 /\ active_nodes = <<>> /\ i_active = 0
    /\ breaks = <<>> /\ i_min = 0 /\ final_breaks = <<>> /\ ret = <<>>
    /\ read_empty = FALSE /\ created = <<>>
    /\ int_overflow \in OverflowOutcomes
    /\ LayoutIdle

\* if (m == 0) return BreaksList();
ReturnEmpty ==
    /\ pc = "start" /\ m = 0
    /\ pc' = "done" /\ ret' = <<>>
    /\ UNCHANGED <<boxVars, layoutVars, line_lengths, tolerance, int_overflow, i, active_nodes,
                   i_active, breaks, i_min, final_breaks, read_empty, created>>

\* the vectors and sums are functions of the nodes; the active list gets the
\* break at the beginning of the text
Setup ==
    /\ pc = "start" /\ m > 0
    /\ active_nodes' = <<Sentinel>>
    /\ created' = <<Made(Sentinel, <<>>, Ratio(0, 1), 0)>>
    /\ i' = 0 /\ pc' = "scan"
    /\ UNCHANGED <<boxVars, layoutVars, line_lengths, tolerance, int_overflow, i_active, breaks,
                   i_min, final_breaks, ret, read_empty>>

\* position i is no feasible breakpoint
SkipPosition ==
    /\ pc = "scan" /\ i < m /\ ~is_feasible_breakpoint(i)
    /\ pc' = "min"
    /\ UNCHANGED <<boxVars, layoutVars, line_lengths, tolerance, int_overflow, i, active_nodes,
                   i_active, breaks, i_min, final_breaks, ret, read_empty, created>>

BeginPosition ==
    /\ pc = "scan" /\ i < m /\ is_feasible_breakpoint(i)
    /\ breaks' = <<>> /\ i_active' = 1 /\ pc' = "active"
    /\ UNCHANGED <<boxVars, layoutVars, line_lengths, tolerance, int_overflow, i, active_nodes,
                   i_min, final_breaks, ret, read_empty, created>>

CurrentRatio ==
    compute_adjustment_ratio(active_nodes[i_active].position, i,
                             active_nodes[i_active].line, line_lengths)

\* if (r < -1 || is_forced_break(i))
MustErase(r, k) == RLessMinusOne(r) \/ is_forced_break(k)

\* erase advances the iterator: the index stays
EraseActive ==
    /\ pc = "active" /\ i_active <= Len(active_nodes)
    /\ MustErase(CurrentRatio, i)
    /\ active_nodes' = RemoveAt(active_nodes, i_active)
    /\ UNCHANGED <<boxVars, layoutVars, line_lengths, tolerance, int_overflow, pc, i, i_active,
                   breaks, i_min, final_breaks, ret, read_empty, created>>

RecordBreak ==
    /\ pc = "active" /\ i_active <= Len(active_nodes)
    /\ ~MustErase(CurrentRatio, i)
    /\ ToleranceTest(CurrentRatio, tolerance)
    /\ LET dm == ToInt(LineDemerits(CurrentRatio, i, active_nodes[i_active]))
           b  == NewBreak(i, active_nodes[i_active], CurrentRatio, dm)
       IN  /\ breaks' = Append(breaks, b)
           /\ created' = Append(created,
                                Made(b, <<active_nodes[i_active]>>, CurrentRatio, i))
    /\ i_active' = i_active + 1
    /\ UNCHANGED <<boxVars, layoutVars, line_lengths, tolerance, int_overflow, pc, i, active_nodes,
                   i_min, final_breaks, ret, read_empty>>

PassActive ==
    /\ pc = "active" /\ i_active <= Len(active_nodes)
    /\ ~MustErase(CurrentRatio, i)
    /\ ~ToleranceTest(CurrentRatio, tolerance)
    /\ i_active' = i_active + 1
    /\ UNCHANGED <<boxVars, layoutVars, line_lengths, tolerance, int_overflow, pc, i, active_nodes,
                   breaks, i_min, final_breaks, ret, read_empty, created>>

\* the new breaks go into the active list; breaks ends with its block
MergeNewBreaks ==
    /\ pc = "active" /\ i_active > Len(active_nodes)
    /\ active_nodes' = MergeBreaks(active_nodes, breaks)
    /\ breaks' = <<>> /\ i_active' = 0 /\ pc' = "min"
    /\ UNCHANGED <<boxVars, layoutVars, line_lengths, tolerance, int_overflow, i, i_min,
                   final_breaks, ret, read_empty, created>>

\* minimum search and path reconstruction, inside the outer loop
FindMin ==
    /\ pc = "min" /\ active_nodes # <<>>
    /\ i_min' = FindMinIndex(active_nodes)
    /\ final_breaks' = BuildFinalBreaks(active_nodes[FindMinIndex(active_nodes)])
    /\ i' = i + 1 /\ pc' = "scan"
    /\ UNCHANGED <<boxVars, layoutVars, line_lengths, tolerance, int_overflow, active_nodes,
                   i_active, breaks, ret, read_empty, created>>

\* with an empty list, begin() is end() and i_active->demerits reads no
\* element: the run dies, or goes on with whatever was read
FindMinEmpty ==
    /\ pc = "min" /\ active_nodes = <<>>
    /\ read_empty' = TRUE /\ i_min' = 0
    /\ \/ /\ pc' = "crashed"
          /\ UNCHANGED <<i, final_breaks>>
       \/ /\ final_breaks' \in { <<k>> : k \in GarbagePositions }
          /\ i' = i + 1 /\ pc' = "scan"
    /\ UNCHANGED <<boxVars, layoutVars, line_lengths, tolerance, int_overflow, active_nodes,
                   i_active, breaks, ret, created>>

\* the loop ends and the function ends without a return statement
FallOffEnd ==
    /\ pc = "scan" /\ i = m
    /\ ret' \in GarbageBreaks
    /\ pc' = "done"
    /\ UNCHANGED <<boxVars, layoutVars, line_lengths, tolerance, int_overflow, i, active_nodes,
                   i_active, breaks, i_min, final_breaks, read_empty, created>>

Next ==
    \/ ReturnEmpty
    \/ Setup
    \/ SkipPosition
    \/ BeginPosition
    \/ EraseActive
    \/ RecordBreak
    \/ PassActive
    \/ MergeNewBreaks
    \/ FindMin
    \/ FindMinEmpty
    \/ FallOffEnd

Spec == Init /\ [][Next]_vars

-----------------------------------------------------------------------------
(* calc_layout as a process.  lpc: "start", "loop", "done".  The children  *)
(* are boxes of fixed size: their own calc_layout ignores the hints.       *)

LayoutNodeKinds ==
    { BoxNode(1, 1, 0), BoxNode(2, 2, 1), BoxNode(3, 1, 2), GlueNode(1, 0, 0) }

WidthHintChoices == { 2, 4 }
HSpacingChoices  == { 0, 1 }
VSpacingChoices  == { 1, 2 }

\* the boxes of widths 30, 40, 20, 50 laid out with spacing 5 into width 80
ExampleNodes    == << BoxNode(30, 8, 2), BoxNode(40, 10, 3), BoxNode(20, 9, 4),
                      BoxNode(50, 7, 5) >>
ExampleScenario == [nodes |-> ExampleNodes, hint |-> 80, hsp |-> 5, vsp |-> 12]

LayoutScenarios ==
    { [nodes |-> ns, hint |-> h, hsp |-> hs, vsp |-> vs] :
        ns \in SeqsUpTo(LayoutNodeKinds, MaxBoxes), h \in WidthHintChoices,
        hs \in HSpacingChoices, vs \in VSpacingChoices }
    \cup { ExampleScenario }

LayoutInit ==
    /\ \E sc \in LayoutScenarios :
          /\ m_nodes = sc.nodes
          /\ width_hint = sc.hint
          /\ m_hspacing = sc.hsp
          /\ m_vspacing = sc.vsp
    /\ lpc = "start" /\ i_node = 0
    /\ x_off = 0 /\ y_off = 0 /\ lines = 0 /\ ascent = 0 /\ descent = 0
    /\ placed = [k \in 1..Len(m_nodes) |-> <<>>]
    /\ m_width = 0 /\ m_ascent = 0 /\ m_descent = 0 /\ m_multiline_shift = 0
    /\ BreaksIdle

\* Length x_off = 0, y_off = 0; int lines = 0; Length ascent = 0, descent = 0
EnterLayout ==
    /\ lpc = "start"
    /\ x_off' = 0 /\ y_off' = 0 /\ lines' = 0 /\ ascent' = 0 /\ descent' = 0
    /\ i_node' = 0 /\ lpc' = "loop"
    /\ UNCHANGED <<boxVars, breakVars, width_hint, placed, m_width, m_ascent,
                   m_descent, m_multiline_shift>>

\* the wrap test with >= in place of >
MustWrapGeq(x, width, hint) == x + width >= hint

\* if (x_off + (*i_node)->width() > width_hint)
MustWrap(x, width, hint) == x + width > hint

\* the box does not fit: it opens a new line
LayoutBoxWrap ==
    /\ lpc = "loop" /\ i_node < m /\ Node(i_node).type = "box"
    /\ MustWrap(x_off, Node(i_node).width, width_hint)
    /\ y_off' = y_off - m_vspacing
    /\ lines' = lines + 1
    /\ placed' = [placed EXCEPT ![i_node + 1] = <<0, y_off - m_vspacing>>]
    /\ x_off' = 0 + Node(i_node).width + m_hspacing
    /\ descent' = IF Node(i_node).descent > 0 THEN Node(i_node).descent ELSE 0
    /\ ascent' = IF lines + 1 = 0 /\ Node(i_node).ascent > ascent
                 THEN Node(i_node).ascent ELSE ascent
    /\ i_node' = i_node + 1
    /\ UNCHANGED <<boxVars, breakVars, width_hint, lpc, m_width, m_ascent,
                   m_descent, m_multiline_shift>>

\* the box fits on the current line
LayoutBoxFit ==
    /\ lpc = "loop" /\ i_node < m /\ Node(i_node).type = "box"
    /\ ~MustWrap(x_off, Node(i_node).width, width_hint)
    /\ placed' = [placed EXCEPT ![i_node + 1] = <<x_off, y_off>>]
    /\ x_off' = x_off + Node(i_node).width + m_hspacing
    /\ descent' = IF Node(i_node).descent > descent THEN Node(i_node).descent ELSE descent
    /\ ascent' = IF lines = 0 /\ Node(i_node).ascent > ascent
                 THEN Node(i_node).ascent ELSE ascent
    /\ i_node' = i_node + 1
    /\ UNCHANGED <<boxVars, breakVars, width_hint, lpc, y_off, lines, m_width,
                   m_ascent, m_descent, m_multiline_shift>>

\* glue: not implemented; any other node: nothing
LayoutSkipNode ==
    /\ lpc = "loop" /\ i_node < m /\ Node(i_node).type # "box"
    /\ i_node' = i_node + 1
    /\ UNCHANGED <<boxVars, breakVars, width_hint, lpc, x_off, y_off, lines, ascent,
                   descent, placed, m_width, m_ascent, m_descent, m_multiline_shift>>

LeaveLayout ==
    /\ lpc = "loop" /\ i_node = m
    /\ m_multiline_shift' = lines * m_vspacing
    /\ m_ascent' = ascent + lines * m_vspacing
    /\ m_descent' = descent
    /\ m_width' = width_hint
    /\ lpc' = "done"
    /\ UNCHANGED <<boxVars, breakVars, width_hint, i_node, x_off, y_off, lines,
                   ascent, descent, placed>>

LayoutNext ==
    \/ EnterLayout
    \/ LayoutBoxWrap
    \/ LayoutBoxFit
    \/ LayoutSkipNode
    \/ LeaveLayout

LayoutSpec == LayoutInit /\ [][LayoutNext]_vars

-----------------------------------------------------------------------------
(* Properties of compute_breaks *)

RECURSIVE StrictlyIncreasing(_)
StrictlyIncreasing(s) ==
    Len(s) <= 1 \/ (s[1] < s[2] /\ StrictlyIncreasing(Tail(s)))

\* C1: for a non-empty node list the break positions compute_breaks ends
\* with are strictly increasing, start after 0 and end at the last node
\* index m - 1.
C1_BreaksEndAtLastIndex ==
    (pc = "done" /\ m > 0) =>
        /\ final_breaks # <<>>
        /\ StrictlyIncreasing(final_breaks)
        /\ final_breaks[1] > 0
        /\ final_breaks[Len(final_breaks)] = m - 1

\* C2: every forced break position k appears in the break sequence the run
\* ends with.
C2_ForcedBreakTaken ==
    (pc \in {"done", "crashed"}) =>
        \A k \in 0..(m - 1) : is_forced_break(k) => k \in Range(final_breaks)

\* C3: the minimum search never reads an element of an empty active list,
\* and a run whose active list was emptied does not end as a normal return
\* (it has to end in an explicit NoFeasibleBreak failure).
C3_ExhaustionReported ==
    /\ ~read_empty
    /\ ~(pc = "done" /\ m > 0 /\ active_nodes = <<>>)

Triple(b) == <<b.line, b.fitness_class, b.position>>

NoTwoSameTriple(list) ==
    \A a, b \in 1..Len(list) : a # b => Triple(list[a]) # Triple(list[b])

\* the first breakpoint constructed with the triple t
FirstMade(t) ==
    created[CHOOSE j \in 1..Len(created) :
                /\ Triple(created[j].bp) = t
                /\ \A h \in 1..(j - 1) : Triple(created[h].bp) # t].bp

\* C4: the active list never holds two entries with the same (line, fitness
\* class, position), and the entry it holds for a triple is the first
\* breakpoint constructed with that triple: a later candidate with the same
\* triple was dropped.
C4_ActiveTriplesUnique ==
    /\ NoTwoSameTriple(active_nodes)
    /\ \A a \in 1..Len(active_nodes) :
          active_nodes[a] = FirstMade(Triple(active_nodes[a]))

\* a candidate was dropped: two breakpoints were constructed with one triple,
\* with different demerits, and the active list holds the first of them
C4_Witness ==
    /\ pc = "min"
    /\ \E j, h \in 1..Len(created) :
          /\ j < h
          /\ Triple(created[j].bp) = Triple(created[h].bp)
          /\ created[j].bp.demerits # created[h].bp.demerits
          /\ created[j].bp \in Range(active_nodes)

TotalWidth == m_sum_widths(m)

\* C5: with a single line length larger than the total width of the nodes
\* and no forced break, the break sequence the run ends with has no position
\* strictly between 0 and the last node index.
C5_SingleLine ==
    ( /\ pc = "done" /\ m > 0
      /\ Len(line_lengths) = 1 /\ line_lengths[1] > TotalWidth
      /\ \A k \in 0..(m - 1) : ~is_forced_break(k) )
    => \A k \in Range(final_breaks) : ~(0 < k /\ k < m - 1)

\* C8: every candidate breakpoint was recorded for a line whose adjustment
\* ratio r satisfies -1 <= r <= tolerance.
C8_CandidatesWithinTolerance ==
    \A j \in 2..Len(created) :
        LET r == created[j].r
        IN  ~r.inf /\ r.n >= -r.d /\ r.n <= tolerance * r.d

RECURSIVE ChainRoot(_)
ChainRoot(b) == IF b.previous = <<>> THEN b ELSE ChainRoot(b.previous[1])

\* C9: every candidate recorded for the line from active breakpoint a to
\* position i carries position i, line a.line + 1, predecessor a and demerits
\* a.demerits plus the demerits of the line; the predecessor chain of every
\* active breakpoint runs through strictly decreasing positions down to the
\* sentinel at position 0.
C9_CandidateRecord ==
    /\ \A j \in 2..Len(created) :
          LET c == created[j]
              a == c.from[1]
          IN  /\ c.bp.position = c.at
              /\ c.bp.line = a.line + 1
              /\ c.bp.previous = <<a>>
              /\ c.bp.demerits = a.demerits + ToInt(LineDemerits(c.r, c.at, a))
    /\ \A a \in 1..Len(active_nodes) :
          /\ ChainRoot(active_nodes[a]) = Sentinel
          /\ StrictlyIncreasing(BuildFinalBreaks(active_nodes[a]))

\* the rank of a breakpoint in construction order
CreatedRank(b) ==
    CHOOSE j \in 1..Len(created) :
        /\ created[j].bp = b
        /\ \A h \in 1..(j - 1) : created[h].bp # b

\* the state right after a minimum search over a non-empty list
AfterMinSearch == pc = "scan" /\ i > 0 /\ i_min > 0 /\ active_nodes # <<>>

MinDemerits(list, k) == \A j \in 1..Len(list) : list[k].demerits <= list[j].demerits

\* C10 as stated: among the active breakpoints of minimum demerits the
\* winner is the one constructed first.
C10_FirstCreatedWins ==
    AfterMinSearch =>
        /\ MinDemerits(active_nodes, i_min)
        /\ \A j \in 1..Len(active_nodes) :
              active_nodes[j].demerits = active_nodes[i_min].demerits
                  => CreatedRank(active_nodes[i_min]) <= CreatedRank(active_nodes[j])

\* C10 amended: among the active breakpoints of minimum demerits the winner
\* is the one that comes first in the active list, that is the one with the
\* lowest line number and, among those of one line, the one constructed last.
C10_FirstInListWins ==
    AfterMinSearch =>
        /\ MinDemerits(active_nodes, i_min)
        /\ \A j \in 1..Len(active_nodes) :
              (j # i_min /\ active_nodes[j].demerits = active_nodes[i_min].demerits)
                  => /\ i_min < j
                     /\ \/ active_nodes[i_min].line < active_nodes[j].line
                        \/ /\ active_nodes[i_min].line = active_nodes[j].line
                           /\ CreatedRank(active_nodes[i_min]) > CreatedRank(active_nodes[j])

\* a tie between two breakpoints of one line, won by the one constructed later
C10_Witness ==
    /\ AfterMinSearch
    /\ \E j \in 1..Len(active_nodes) :
          /\ j # i_min
          /\ active_nodes[j].demerits = active_nodes[i_min].demerits
          /\ active_nodes[j].line = active_nodes[i_min].line
          /\ CreatedRank(active_nodes[i_min]) > CreatedRank(active_nodes[j])

-----------------------------------------------------------------------------
(* Properties of calc_layout.  Positions here are 1-based indices of m_nodes. *)

IsBox(k) == m_nodes[k].type = "box"
IsPlaced(k) == IsBox(k) /\ placed[k] # <<>>

Boxes == { k \in 1..Len(m_nodes) : IsBox(k) }

\* the box before k, 0 when k is the first box
PrevBox(k) ==
    IF \E j \in Boxes : j < k
    THEN CHOOSE j \in Boxes : j < k /\ \A h \in Boxes : h < k => h <= j
    ELSE 0

\* the y of the line that is current when box k is reached
CurrentLineY(k) == IF PrevBox(k) = 0 THEN 0 ELSE placed[PrevBox(k)][2]

\* sum of width + hspacing over the boxes below index j placed at height yy
RECURSIVE OffsetOnLine(_, _)
OffsetOnLine(j, yy) ==
    IF j = 0 THEN 0
    ELSE OffsetOnLine(j - 1, yy)
         + (IF IsPlaced(j) /\ placed[j][2] = yy
            THEN m_nodes[j].width + m_hspacing ELSE 0)

RunningOffset(k) == OffsetOnLine(k - 1, CurrentLineY(k))

StartsNewLine(k) == placed[k] = <<0, CurrentLineY(k) - m_vspacing>>

\* C6: first-fit wrapping: a box starts a new line (x = 0, y one vspacing
\* lower, one more line counted) exactly when the running offset of the
\* current line plus its width exceeds width_hint, and otherwise sits at the
\* running offset on the current line; the boxes of widths 30, 40, 20, 50
\* with hspacing 5 and width_hint 80 wrap once, after the second box.
C6_FirstFitWrap ==
    /\ \A k \in 1..Len(m_nodes) :
          IsPlaced(k) =>
              IF RunningOffset(k) + m_nodes[k].width > width_hint
              THEN StartsNewLine(k)
              ELSE placed[k] = <<RunningOffset(k), CurrentLineY(k)>>
    /\ lpc \in {"loop", "done"} =>
          lines = Cardinality({ k \in 1..Len(m_nodes) : IsPlaced(k) /\ StartsNewLine(k) })
    /\ (lpc = "done" /\ m_nodes = ExampleNodes /\ width_hint = 80 /\ m_hspacing = 5) =>
          /\ lines = 1
          /\ placed = << <<0, 0>>, <<35, 0>>, <<0, -m_vspacing>>, <<25, -m_vspacing>> >>

\* the example paragraph laid out: the third box opened the second line
C6_Witness ==
    /\ lpc = "done" /\ m_nodes = ExampleNodes /\ width_hint = 80 /\ m_hspacing = 5
    /\ placed[2][1] = 35 /\ placed[3][1] = 0 /\ lines = 1

MaxOf(S) == IF S = {} THEN 0 ELSE CHOOSE v \in S : \A u \in S : u <= v

FirstBox == CHOOSE k \in Boxes : \A j \in Boxes : k <= j
LastBox  == CHOOSE k \in Boxes : \A j \in Boxes : j <= k

\* the boxes on the line of the first box, and on the line of the last box
FirstLineBoxes == IF Boxes = {} THEN {}
                  ELSE { k \in Boxes : placed[k][2] = placed[FirstBox][2] }
LastLineBoxes  == IF Boxes = {} THEN {}
                  ELSE { k \in Boxes : placed[k][2] = placed[LastBox][2] }

\* C7: after calc_layout the paragraph's ascent is the maximum ascent of the
\* boxes on the first line plus (line wraps x vspacing), its descent is the
\* maximum descent of the boxes on the last line, and its width is
\* width_hint, also when the very first box is wider than width_hint.
C7_AscentDescentWidth ==
    lpc = "done" =>
        /\ m_ascent = MaxOf({ m_nodes[k].ascent : k \in FirstLineBoxes })
                      + lines * m_vspacing
        /\ m_descent = MaxOf({ m_nodes[k].descent : k \in LastLineBoxes })
        /\ m_width = width_hint

====
